---- MODULE Spec2Model ----
(***************************************************************************)
(* A model of the Mandelbrot zoom viewer: gpuset.py (display loop, the     *)
(* render_worker thread, auto_zoom) and the pure helpers it uses.          *)
(*                                                                         *)
(* Plane coordinates are Python floats in the source.  They are modelled   *)
(* by exact reals: every value the program computes from its constants is  *)
(* a rational whose denominator has only the prime factors 2, 3 and 5, so  *)
(* it has a finite expansion in base 30.  A real is a sign and a sequence  *)
(* of base-30^3 digits with a count of fractional digits; numerators grow  *)
(* beyond 32 bits after a dozen zooms, hence the multi-digit form.         *)
(***************************************************************************)
EXTENDS Integers, Sequences, FiniteSets, TLC

(***************************************************************************)
(* Exact reals with terminating base-30 expansions.                        *)
(***************************************************************************)
Base == 30 * 30 * 30

RECURSIVE StripHigh(_)
StripHigh(d) ==
    IF d = <<>> THEN <<>>
    ELSE IF d[Len(d)] = 0 THEN StripHigh(SubSeq(d, 1, Len(d) - 1))
    ELSE d

RECURSIVE LowZeros(_)
LowZeros(d) == IF d = <<>> \/ d[1] # 0 THEN 0 ELSE 1 + LowZeros(Tail(d))

Min2(a, b) == IF a <= b THEN a ELSE b
Max2(a, b) == IF a >= b THEN a ELSE b

(* canonical form: no high zero digit, no low fractional zero digit, +0 *)
Norm(neg, dig, frac) ==
    LET hi   == StripHigh(dig)
        drop == Min2(frac, LowZeros(hi))
        d    == SubSeq(hi, drop + 1, Len(hi))
    IN  IF hi = <<>> THEN [neg |-> FALSE, dig |-> <<>>, frac |-> 0]
        ELSE [neg |-> neg, dig |-> d, frac |-> frac - drop]

RECURSIVE Zeros(_)
Zeros(n) == IF n <= 0 THEN <<>> ELSE <<0>> \o Zeros(n - 1)

(* the digits of x with exactly f >= x.frac fractional digits *)
Align(x, f) == Zeros(f - x.frac) \o x.dig

RECURSIVE MagAdd(_, _, _)
MagAdd(a, b, c) ==
    IF a = <<>> /\ b = <<>> THEN (IF c = 0 THEN <<>> ELSE <<c>>)
    ELSE LET x == IF a = <<>> THEN 0 ELSE Head(a)
             y == IF b = <<>> THEN 0 ELSE Head(b)
             s == x + y + c
         IN  <<s % Base>> \o MagAdd(IF a = <<>> THEN a ELSE Tail(a),
                                    IF b = <<>> THEN b ELSE Tail(b),
                                    s \div Base)

(* a - b for magnitudes with a >= b *)
RECURSIVE MagSub(_, _, _)
MagSub(a, b, c) ==
    IF a = <<>> THEN <<>>
    ELSE LET y == IF b = <<>> THEN 0 ELSE Head(b)
             s == Head(a) - y - c
         IN  <<s % Base>> \o MagSub(Tail(a),
                                    IF b = <<>> THEN b ELSE Tail(b),
                                    IF s < 0 THEN 1 ELSE 0)

(* a < b for magnitudes without high zero digits *)
RECURSIVE MagLess(_, _)
MagLess(a, b) ==
    IF Len(a) # Len(b) THEN Len(a) < Len(b)
    ELSE IF a = <<>> THEN FALSE
    ELSE IF a[Len(a)] # b[Len(b)] THEN a[Len(a)] < b[Len(b)]
    ELSE MagLess(SubSeq(a, 1, Len(a) - 1), SubSeq(b, 1, Len(b) - 1))

RNeg(x) == IF x.dig = <<>> THEN x ELSE [x EXCEPT !.neg = ~x.neg]

RAdd(x, y) ==
    LET f == Max2(x.frac, y.frac)
        a == StripHigh(Align(x, f))
        b == StripHigh(Align(y, f))
    IN  IF x.neg = y.neg THEN Norm(x.neg, MagAdd(a, b, 0), f)
        ELSE IF MagLess(a, b) THEN Norm(y.neg, MagSub(b, a, 0), f)
        ELSE Norm(x.neg, MagSub(a, b, 0), f)

RSub(x, y) == RAdd(x, RNeg(y))

RECURSIVE MagMul(_, _, _)
MagMul(a, k, c) ==
    IF a = <<>> THEN (IF c = 0 THEN <<>> ELSE <<c % Base>> \o MagMul(a, k, c \div Base))
    ELSE LET s == Head(a) * k + c
         IN  <<s % Base>> \o MagMul(Tail(a), k, s \div Base)

(* x * k for an integer 0 <= k < Base *)
RMulInt(x, k) == Norm(x.neg, MagMul(x.dig, k, 0), x.frac)

(* long division of the digits, most significant first; r is the carry *)
RECURSIVE MagDiv(_, _, _)
MagDiv(a, k, r) ==
    IF a = <<>> THEN [q |-> <<>>, r |-> r]
    ELSE LET n    == Len(a)
             cur  == r * Base + a[n]
             rest == MagDiv(SubSeq(a, 1, n - 1), k, cur % k)
         IN  [q |-> Append(rest.q, cur \div k), r |-> rest.r]

(* the fractional digits that finish a division with remainder r *)
RECURSIVE FracExt(_, _)
FracExt(k, r) ==
    IF r = 0 THEN <<>>
    ELSE LET cur == r * Base IN FracExt(k, cur % k) \o <<cur \div k>>

(* x / k for an integer 0 < k < Base with no prime factor beyond 2, 3, 5 *)
RDivInt(x, k) ==
    LET d   == MagDiv(x.dig, k, 0)
        ext == FracExt(k, d.r)
    IN  Norm(x.neg, ext \o d.q, x.frac + Len(ext))

(* the real n / d for integers n and 0 < d, d with prime factors 2, 3, 5 *)
RInt(n) ==
    LET m == IF n < 0 THEN -n ELSE n
    IN  Norm(n < 0, <<m % Base, (m \div Base) % Base, m \div (Base * Base)>>, 0)

Ratio(n, d) == RDivInt(RInt(n), d)


(***************************************************************************)
(* Constants of gpuset.py.                                                 *)
(***************************************************************************)
WIDTH == 800
HEIGHT == 600
INITIAL_MAX_ITER == 256
MIN_RENDER_WIDTH == 100
MIN_RENDER_HEIGHT == 75
MAX_RENDER_WIDTH == WIDTH
MAX_RENDER_HEIGHT == HEIGHT
MAX_ITER_CEILING == 2048

(* ZOOM_FACTOR = 1.2, as the fraction 6/5; a factor is <<numerator, denominator>> *)
ZOOM_FACTOR == <<6, 5>>

(* 1/ZOOM_FACTOR, the zoom-out factor of lines 163 and 172 *)
Reciprocal(f) == <<f[2], f[1]>>

ZoomFactors == {ZOOM_FACTOR, Reciprocal(ZOOM_FACTOR)}

(* x / zoom_factor *)
RDivFactor(x, f) == RDivInt(RMulInt(x, f[2]), f[1])

(* int(n * zoom_factor) for an integer n >= 0: Python's int() truncates, and   *)
(* the double product n * 1.2 (n * (1/1.2)) truncates to the same integer as   *)
(* the exact product for every n in 0..4999                                    *)
IntTimes(n, f) == (n * f[1]) \div f[2]

(***************************************************************************)
(* Bounds of the model.                                                    *)
(***************************************************************************)
(* zooms the display loop starts in a behaviour of Spec *)
MaxZooms == 1
(* render_worker threads that can exist at once (the program keeps one) *)
MaxThreads == 2
(* auto_zoom calls in a behaviour of SpecZoom, at any focal point *)
MaxZoomCalls == 3
(* auto_zoom calls in a behaviour of SpecDeep, at the tracked cursor *)
MaxDeepCalls == 14
(* the largest iteration cap given to the escape-time evaluators *)
MaxIter == 4
(* the evaluators are given the points a + bi with integers |a|, |b| <= MaxCoord *)
MaxCoord == 3
(* worker threads of the ThreadPoolExecutor of set.py *)
MaxWorkers == 2

(* the pointer positions of the events of the concurrent specification, and *)
(* the focal points of the sequential one                                    *)
ScreenCentre == <<WIDTH \div 2, HEIGHT \div 2>>
Positions == {ScreenCentre}
FocalPoints == {ScreenCentre, <<0, 0>>, <<WIDTH, HEIGHT>>, <<200, 450>>, <<WIDTH \div 2, 0>>}

VARIABLES
    xmin, xmax, ymin, ymax,          \* plane bounds (lines 82-83)
    RENDER_WIDTH, RENDER_HEIGHT,     \* render resolution (line 86)
    MAX_ITER,                        \* iteration cap (line 87)
    surfaces,                        \* the pygame.Surface objects, by identity
    render_surface,                  \* the displayed surface (line 90)
    next_mandelbrot_image,           \* line 93: <<>> is None, else the grid
    next_render_surface,             \* line 94: 0 is None, else a surface
    needs_update, is_rendering,      \* lines 95-96
    render_queue, render_thread,     \* lines 99-100
    threads,                         \* the render_worker threads and their locals
    running, auto_zooming,           \* lines 143-144
    mouse_x, mouse_y,                \* line 145
    pc,                              \* the display thread's position
    ret,                             \* where start_new_render returns to
    az,                              \* the locals of the running auto_zoom call
    zooms,                           \* history: auto_zoom calls made
    consumed,                        \* history: line 183 has run
    zlog,                            \* history: the last two sequential calls
    call,                            \* set.py and the kernel: arguments and result of a call
    futures,                         \* set.py line 35: the tasks of executor.map
    rows,                            \* set.py line 35: the list built from the map
    mandelbrot_image                 \* set.py line 106: the grid returned

viewVars == <<xmin, xmax, ymin, ymax, RENDER_WIDTH, RENDER_HEIGHT, MAX_ITER>>
slotVars == <<next_mandelbrot_image, next_render_surface>>
workVars == <<needs_update, is_rendering, render_queue, render_thread, threads>>
loopVars == <<running, auto_zooming, mouse_x, mouse_y, pc, ret, az>>
histVars == <<zooms, consumed, zlog>>
gpuVars == <<viewVars, surfaces, render_surface, slotVars, workVars, loopVars, histVars>>
setVars == <<call, futures, rows, mandelbrot_image>>
vars == <<gpuVars, setVars>>

(***************************************************************************)
(* auto_zoom (lines 125-137), line by line.                                *)
(***************************************************************************)
(* lines 128-129: xmin + (xmax - xmin) * mouse_x / WIDTH *)
CentreOfView(lo, hi, mouse, size) == RAdd(lo, RDivInt(RSub(hi, lo), 2))
Centre(lo, hi, mouse, size) == RAdd(lo, RDivInt(RMulInt(RSub(hi, lo), mouse), size))

(* lines 130-131: (xmax - xmin) / zoom_factor *)
ExtentTimes(lo, hi, f) == RDivFactor(RSub(hi, lo), Reciprocal(f))
Extent(lo, hi, f) == RDivFactor(RSub(hi, lo), f)

(* lines 134-136: min(ceiling, int(old * zoom_factor)) *)
ScaledUnclamped(old, f, ceiling) == IntTimes(old, f)
Scaled(old, f, ceiling) == Min2(ceiling, IntTimes(old, f))

(* lines 132-133: x_center - width / 2 and x_center + width / 2 *)
NewLow(lo, hi, f, mouse, size) ==
    RSub(Centre(lo, hi, mouse, size), RDivInt(Extent(lo, hi, f), 2))
NewHigh(lo, hi, f, mouse, size) ==
    RAdd(Centre(lo, hi, mouse, size), RDivInt(Extent(lo, hi, f), 2))

(* the seven values a call assigns *)
auto_zoom(v, zoom_factor, mx, my) ==
    [xmin |-> NewLow(v.xmin, v.xmax, zoom_factor, mx, WIDTH),
         xmax |-> NewHigh(v.xmin, v.xmax, zoom_factor, mx, WIDTH),
         ymin |-> NewLow(v.ymin, v.ymax, zoom_factor, my, HEIGHT),
         ymax |-> NewHigh(v.ymin, v.ymax, zoom_factor, my, HEIGHT),
         RENDER_WIDTH  |-> Scaled(v.RENDER_WIDTH, zoom_factor, MAX_RENDER_WIDTH),
         RENDER_HEIGHT |-> Scaled(v.RENDER_HEIGHT, zoom_factor, MAX_RENDER_HEIGHT),
         MAX_ITER      |-> Scaled(v.MAX_ITER, zoom_factor, MAX_ITER_CEILING)]

(* the seven globals as one value *)
Viewport ==
    [xmin |-> xmin, xmax |-> xmax, ymin |-> ymin, ymax |-> ymax,
     RENDER_WIDTH |-> RENDER_WIDTH, RENDER_HEIGHT |-> RENDER_HEIGHT,
     MAX_ITER |-> MAX_ITER]


(***************************************************************************)
(* Surfaces (pygame.Surface) are objects: the display loop and the worker  *)
(* can hold the same one.  A surface is blank when created, partial while  *)
(* draw_mandelbrot is filling it, complete when it has been filled from a  *)
(* grid of its own size, torn when filled with mismatched arguments.       *)
(***************************************************************************)
Threads == 1 .. MaxThreads
SurfIds == 1 .. (MaxThreads + 3)

FreeSurface == [state |-> "free", w |-> 0, h |-> 0, img |-> <<>>, taken |-> 0]

(* pygame.Surface((w, h)) *)
NewSurface(w, h) == [state |-> "blank", w |-> w, h |-> h, img |-> <<>>, taken |-> 0]

(* the surfaces some variable still refers to *)
Refs(rs, nrs, th) == ({rs, nrs} \cup {th[t].surface : t \in Threads}) \ {0}

(* an identity no live surface has *)
FreshId(live) == CHOOSE i \in SurfIds : i \notin live /\ \A j \in SurfIds : j \notin live => i <= j

(* a thread slot: no thread, or a render_worker with its locals *)
NoThread ==
    [pc |-> "free", args |-> <<>>, surface |-> 0, image |-> <<>>,
     width |-> 0, height |-> 0, max_iter |-> 0]

(***************************************************************************)
(* Object identities carry no meaning, so every step that changes a        *)
(* reference renames the surfaces by the first variable that refers to     *)
(* them, in the order render_surface, next_render_surface, the threads'    *)
(* draw arguments; a surface nothing refers to is garbage.                 *)
(***************************************************************************)
(* the references in that order, and the place of the first one to o *)
RefSeq(rs, nrs, th) == <<rs, nrs>> \o [t \in Threads |-> th[t].surface]
FirstSeen(seq, o) == CHOOSE i \in DOMAIN seq : seq[i] = o /\ \A j \in 1 .. (i - 1) : seq[j] # o

(* the new name of o: how many surfaces are referred to up to its first reference *)
NewName(seq, o) ==
    IF o = 0 THEN 0 ELSE Cardinality({seq[j] : j \in 1 .. FirstSeen(seq, o)} \ {0})

Settle(heap, rs, nrs, th) ==
    LET seq     == RefSeq(rs, nrs, th)
        live    == Refs(rs, nrs, th)
        name(o) == NewName(seq, o)
    IN  /\ surfaces' = [k \in SurfIds |->
                            IF \E o \in live : name(o) = k
                            THEN heap[CHOOSE o \in live : name(o) = k]
                            ELSE FreeSurface]
        /\ render_surface' = name(rs)
        /\ next_render_surface' = name(nrs)
        /\ threads' = [t \in Threads |-> [th[t] EXCEPT !.surface = name(@)]]

(***************************************************************************)
(* The state after the module-level statements of lines 82-100, 143-145,   *)
(* with the display thread about to run start_new_render() of line 140.    *)
(***************************************************************************)
Globals ==
    /\ xmin = RInt(-2) /\ xmax = RInt(1)
    /\ ymin = Ratio(-3, 2) /\ ymax = Ratio(3, 2)
    /\ RENDER_WIDTH = 800 /\ RENDER_HEIGHT = 600
    /\ MAX_ITER = INITIAL_MAX_ITER
    /\ surfaces = [i \in SurfIds |-> IF i = 1 THEN NewSurface(RENDER_WIDTH, RENDER_HEIGHT)
                                  ELSE FreeSurface]
    /\ render_surface = 1
    /\ next_mandelbrot_image = <<>>
    /\ next_render_surface = 0
    /\ needs_update = FALSE
    /\ is_rendering = FALSE
    /\ render_queue = <<>>
    /\ render_thread = 0
    /\ threads = [t \in Threads |-> NoThread]
    /\ running = TRUE
    /\ auto_zooming = FALSE
    /\ mouse_x = WIDTH \div 2 /\ mouse_y = HEIGHT \div 2
    /\ pc = "snr119"
    /\ ret = "loop"
    /\ az = <<>>
    /\ zooms = 0
    /\ consumed = FALSE
    /\ zlog = <<>>

(* nothing of set.py is running *)
SetIdle ==
    /\ call = <<>>
    /\ futures = <<>>
    /\ rows = <<>>
    /\ mandelbrot_image = <<>>

Init == Globals /\ SetIdle

(***************************************************************************)
(* auto_zoom as one sequential call, with the caller's assignment of the   *)
(* returned surface (render_surface = auto_zoom(...), lines 159-177).      *)
(***************************************************************************)
LastTwo(log) == IF Len(log) <= 2 THEN log ELSE SubSeq(log, Len(log) - 1, Len(log))

ZoomCall(f, p) ==
    LET new  == auto_zoom(Viewport, f, p[1], p[2])
        live == Refs(0, next_render_surface, threads)
        id   == FreshId(live)
    IN  /\ xmin' = new.xmin /\ xmax' = new.xmax
        /\ ymin' = new.ymin /\ ymax' = new.ymax
        /\ RENDER_WIDTH' = new.RENDER_WIDTH
        /\ RENDER_HEIGHT' = new.RENDER_HEIGHT
        /\ MAX_ITER' = new.MAX_ITER
        /\ Settle([surfaces EXCEPT ![id] =
                       NewSurface(new.RENDER_WIDTH, new.RENDER_HEIGHT)],
                  id, next_render_surface, threads)
        /\ zooms' = zooms + 1
        /\ zlog' = LastTwo(Append(zlog, [f |-> f, p |-> p, before |-> Viewport]))
        /\ UNCHANGED <<next_mandelbrot_image, needs_update, is_rendering,
                       render_queue, render_thread, loopVars, consumed, setVars>>

(* any zoom at any of the focal points, a few calls deep *)
ZoomAnywhere ==
    \E f \in ZoomFactors, p \in FocalPoints : zooms < MaxZoomCalls /\ ZoomCall(f, p)

SpecZoom == Init /\ [][ZoomAnywhere]_vars

(* scroll zooms at the tracked cursor position, which starts at the centre *)
ZoomAtCursor ==
    \E f \in ZoomFactors : zooms < MaxDeepCalls /\ ZoomCall(f, <<mouse_x, mouse_y>>)

SpecDeep == Init /\ [][ZoomAtCursor]_vars


(***************************************************************************)
(* The display thread (lines 140-199).  Threads are interleaved between    *)
(* statements, and inside a statement around each call it makes: the loads *)
(* that evaluate a statement's operands happen together, and so do the     *)
(* stores of one assignment.                                               *)
(***************************************************************************)
IsAlive(th, t) == th[t].pc # "free"

(* line 119: render_thread is None or not render_thread.is_alive() *)
ShouldStartThreadAlways(rt, th) == TRUE
ShouldStartThread(rt, th) == rt = 0 \/ ~IsAlive(th, rt)

(* line 99: ThreadQueue() has maxsize 0, which means no limit *)
QueueMaxSize == 0

(* Queue.put blocks while a bounded queue is full *)
PutEnabledSingleSlot(q) == q = <<>>
PutEnabled(q) == QueueMaxSize = 0 \/ Len(q) < QueueMaxSize

FreeThreads(th) == {t \in Threads : ~IsAlive(th, t)}
FreshThread(th) == CHOOSE t \in FreeThreads(th) : \A u \in FreeThreads(th) : t <= u

(* lines 119-121 of start_new_render *)
Snr119 ==
    /\ pc = "snr119"
    /\ IF ShouldStartThread(render_thread, threads)
       THEN /\ FreeThreads(threads) # {}
            /\ render_thread' = FreshThread(threads)
            /\ threads' = [threads EXCEPT ![FreshThread(threads)] =
                              [NoThread EXCEPT !.pc = "get"]]
       ELSE UNCHANGED <<render_thread, threads, setVars>>
    /\ pc' = "snr122"
    /\ UNCHANGED <<viewVars, surfaces, render_surface, slotVars, needs_update,
                   is_rendering, render_queue, running, auto_zooming, mouse_x,
                   mouse_y, ret, az, histVars, setVars>>

(* lines 122-123 of start_new_render, and the return to the caller *)
Snr122 ==
    /\ pc = "snr122"
    /\ PutEnabled(render_queue)
    /\ render_queue' = Append(render_queue, "task")
    /\ needs_update' = TRUE
    /\ pc' = ret
    /\ ret' = "none"
    /\ UNCHANGED <<viewVars, surfaces, render_surface, slotVars, is_rendering,
                   render_thread, threads, running, auto_zooming, mouse_x,
                   mouse_y, az, histVars, setVars>>

(* line 147, and pygame.event.get() of line 148 *)
LoopHead ==
    /\ pc = "loop"
    /\ pc' = IF running THEN "events" ELSE "cleanup"
    /\ UNCHANGED <<viewVars, surfaces, render_surface, slotVars, workVars,
                   running, auto_zooming, mouse_x, mouse_y, ret, az, histVars, setVars>>

(* lines 149-150 *)
EvQuit ==
    /\ pc = "events"
    /\ running' = FALSE
    /\ UNCHANGED <<viewVars, surfaces, render_surface, slotVars, workVars,
                   auto_zooming, mouse_x, mouse_y, pc, ret, az, histVars, setVars>>

(* lines 151-154 *)
EvSpace ==
    /\ pc = "events"
    /\ auto_zooming' = ~auto_zooming
    /\ UNCHANGED <<viewVars, surfaces, render_surface, slotVars, workVars,
                   running, mouse_x, mouse_y, pc, ret, az, histVars, setVars>>

(* lines 155-156 *)
EvMotion(p) ==
    /\ pc = "events"
    /\ mouse_x' = p[1] /\ mouse_y' = p[2]
    /\ UNCHANGED <<viewVars, surfaces, render_surface, slotVars, workVars,
                   running, auto_zooming, pc, ret, az, histVars, setVars>>

(* entering auto_zoom(f, p[1], p[2]); back is where the caller continues.   *)
(* The locals of lines 128-131 are computed from variables only this thread  *)
(* writes, each still unchanged when the assignment that uses it runs        *)
BeginZoom(f, p, back) ==
    /\ zooms < MaxZooms
    /\ az' = [zoom_factor |-> f, mouse_x |-> p[1], mouse_y |-> p[2], back |-> back]
    /\ pc' = "az132"
    /\ zooms' = zooms + 1
    /\ UNCHANGED <<viewVars, surfaces, render_surface, slotVars, workVars,
                   running, auto_zooming, mouse_x, mouse_y, ret, consumed, zlog, setVars>>

(* lines 157-165: button 1 zooms in, button 3 zooms out, unless is_rendering *)
EvButton(button, p) ==
    /\ pc = "events"
    /\ IF button \in {1, 3} /\ ~is_rendering
       THEN BeginZoom(IF button = 1 THEN ZOOM_FACTOR ELSE Reciprocal(ZOOM_FACTOR),
                      p, "events")
       ELSE UNCHANGED vars

(* lines 166-174: the wheel zooms at the tracked cursor, unless is_rendering *)
EvWheel(y) ==
    /\ pc = "events"
    /\ IF y # 0 /\ ~is_rendering
       THEN BeginZoom(IF y > 0 THEN ZOOM_FACTOR ELSE Reciprocal(ZOOM_FACTOR),
                      <<mouse_x, mouse_y>>, "events")
       ELSE UNCHANGED vars

(* the end of the event list; the input stops asking for zooms once the     *)
(* model's zoom budget is spent, so auto-zoom is switched off by then       *)
EvEnd ==
    /\ pc = "events"
    /\ ~(auto_zooming /\ zooms >= MaxZooms)
    /\ pc' = "auto"
    /\ UNCHANGED <<viewVars, surfaces, render_surface, slotVars, workVars,
                   running, auto_zooming, mouse_x, mouse_y, ret, az, histVars, setVars>>

AzStage == <<"az132", "az133", "az134", "az135", "az136", "az137">>
StageIndex(s) == CHOOSE i \in 1 .. Len(AzStage) : AzStage[i] = s

(* lines 132-136: the assignments of auto_zoom, one statement at a time *)
AzStore ==
    /\ pc \in {AzStage[i] : i \in 1 .. 5}
    /\ xmin' = IF pc = "az132"
               THEN NewLow(xmin, xmax, az.zoom_factor, az.mouse_x, WIDTH) ELSE xmin
    /\ xmax' = IF pc = "az132"
               THEN NewHigh(xmin, xmax, az.zoom_factor, az.mouse_x, WIDTH) ELSE xmax
    /\ ymin' = IF pc = "az133"
               THEN NewLow(ymin, ymax, az.zoom_factor, az.mouse_y, HEIGHT) ELSE ymin
    /\ ymax' = IF pc = "az133"
               THEN NewHigh(ymin, ymax, az.zoom_factor, az.mouse_y, HEIGHT) ELSE ymax
    /\ RENDER_WIDTH' = IF pc = "az134"
               THEN Scaled(RENDER_WIDTH, az.zoom_factor, MAX_RENDER_WIDTH)
               ELSE RENDER_WIDTH
    /\ RENDER_HEIGHT' = IF pc = "az135"
               THEN Scaled(RENDER_HEIGHT, az.zoom_factor, MAX_RENDER_HEIGHT)
               ELSE RENDER_HEIGHT
    /\ MAX_ITER' = IF pc = "az136"
               THEN Scaled(MAX_ITER, az.zoom_factor, MAX_ITER_CEILING)
               ELSE MAX_ITER
    /\ pc' = AzStage[StageIndex(pc) + 1]
    /\ UNCHANGED <<surfaces, render_surface, slotVars, workVars, running,
                   auto_zooming, mouse_x, mouse_y, ret, az, histVars, setVars>>

(* line 137 and the caller's render_surface = auto_zoom(...), then the call *)
(* of start_new_render that follows it (lines 160, 164, 169, 173, 178)      *)
AzReturn ==
    LET live == Refs(0, next_render_surface, threads)
        id   == FreshId(live)
    IN  /\ pc = "az137"
        /\ Settle([surfaces EXCEPT ![id] = NewSurface(RENDER_WIDTH, RENDER_HEIGHT)],
                  id, next_render_surface, threads)
        /\ pc' = "snr119"
        /\ ret' = az.back
        /\ az' = <<>>
        /\ UNCHANGED <<viewVars, next_mandelbrot_image, needs_update, is_rendering,
                       render_queue, render_thread, running, auto_zooming,
                       mouse_x, mouse_y, histVars, setVars>>

(* lines 176-179 *)
AutoZoomTick ==
    /\ pc = "auto"
    /\ IF auto_zooming /\ ~is_rendering
       THEN BeginZoom(ZOOM_FACTOR, <<mouse_x, mouse_y>>, "poll")
       ELSE /\ pc' = "poll"
            /\ UNCHANGED <<viewVars, surfaces, render_surface, slotVars, workVars,
                           running, auto_zooming, mouse_x, mouse_y, ret, az,
                           histVars, setVars>>


(* line 181: if next_render_surface is not None *)
Poll181 ==
    /\ pc = "poll"
    /\ pc' = IF next_render_surface # 0 THEN "p183" ELSE "present"
    /\ UNCHANGED <<viewVars, surfaces, render_surface, slotVars, workVars,
                   running, auto_zooming, mouse_x, mouse_y, ret, az, histVars, setVars>>

Bump(n) == Min2(2, n + 1)

(* line 183: render_surface = next_render_surface *)
Poll183 ==
    /\ pc = "p183"
    /\ Settle([surfaces EXCEPT ![next_render_surface].taken = Bump(@)],
              next_render_surface, next_render_surface, threads)
    /\ consumed' = TRUE
    /\ pc' = "p184"
    /\ UNCHANGED <<viewVars, next_mandelbrot_image, needs_update, is_rendering,
                   render_queue, render_thread, running, auto_zooming, mouse_x,
                   mouse_y, ret, az, zooms, zlog, setVars>>

(* line 184: next_render_surface = None *)
Poll184 ==
    /\ pc = "p184"
    /\ Settle(surfaces, render_surface, 0, threads)
    /\ pc' = "p185"
    /\ UNCHANGED <<viewVars, next_mandelbrot_image, needs_update, is_rendering,
                   render_queue, render_thread, running, auto_zooming, mouse_x,
                   mouse_y, ret, az, histVars, setVars>>

(* line 185: next_mandelbrot_image = None *)
Poll185 ==
    /\ pc = "p185"
    /\ next_mandelbrot_image' = <<>>
    /\ pc' = "p186"
    /\ UNCHANGED <<viewVars, surfaces, render_surface, next_render_surface,
                   workVars, running, auto_zooming, mouse_x, mouse_y, ret, az,
                   histVars, setVars>>

(* lines 186-188: needs_update = False, then the re-render request *)
Poll186 ==
    /\ pc = "p186"
    /\ needs_update' = FALSE
    /\ IF ~is_rendering /\ ~auto_zooming
       THEN pc' = "snr119" /\ ret' = "present"
       ELSE pc' = "present" /\ ret' = ret
    /\ UNCHANGED <<viewVars, surfaces, render_surface, slotVars, is_rendering,
                   render_queue, render_thread, threads, running, auto_zooming,
                   mouse_x, mouse_y, az, histVars, setVars>>

(* lines 191-193: scale render_surface to the screen, blit and flip *)
Present ==
    /\ pc = "present"
    /\ pc' = "loop"
    /\ UNCHANGED <<viewVars, surfaces, render_surface, slotVars, workVars,
                   running, auto_zooming, mouse_x, mouse_y, ret, az, histVars, setVars>>

(* line 196: render_queue.put(None) *)
Cleanup196 ==
    /\ pc = "cleanup"
    /\ PutEnabled(render_queue)
    /\ render_queue' = Append(render_queue, "None")
    /\ pc' = "join"
    /\ UNCHANGED <<viewVars, surfaces, render_surface, slotVars, needs_update,
                   is_rendering, render_thread, threads, running, auto_zooming,
                   mouse_x, mouse_y, ret, az, histVars, setVars>>

(* lines 197-199: join waits until the thread is no longer alive *)
Join ==
    /\ pc = "join"
    /\ render_thread # 0 => ~IsAlive(threads, render_thread)
    /\ pc' = "done"
    /\ UNCHANGED <<viewVars, surfaces, render_surface, slotVars, workVars,
                   running, auto_zooming, mouse_x, mouse_y, ret, az, histVars, setVars>>

Buttons == {1, 2, 3}
WheelSteps == {-1, 0, 1}

(* the steps of the display loop before the shutdown join that call         *)
(* something: the plain assignments of lines 132-136 are AzStore            *)
CallStep ==
    \/ Snr119 \/ Snr122 \/ LoopHead
    \/ EvQuit \/ EvSpace
    \/ \E p \in Positions : EvMotion(p)
    \/ \E b \in Buttons, p \in Positions : EvButton(b, p)
    \/ \E y \in WheelSteps : EvWheel(y)
    \/ EvEnd \/ AzReturn \/ AutoZoomTick
    \/ Poll181 \/ Poll183 \/ Poll184 \/ Poll185 \/ Poll186 \/ Present
    \/ Cleanup196

LoopStep == AzStore \/ CallStep

Display == LoopStep \/ Join


(***************************************************************************)
(* render_worker (lines 102-115): the argument loads of a call are one     *)
(* step, the call with the store of its result the next.  A thread that    *)
(* returns or raises leaves its slot free.                                 *)
(***************************************************************************)
(* mandelbrot_set (lines 57-68): the grid the kernel computes is a function *)
(* of the seven arguments, so the grid is modelled by them                  *)
mandelbrot_set(a) ==
    [xmin |-> a[1], xmax |-> a[2], ymin |-> a[3], ymax |-> a[4],
     width |-> a[5], height |-> a[6], max_iter |-> a[7]]

(* lines 105-108: the blocking get; None ends the thread *)
WGet(t) ==
    /\ threads[t].pc = "get"
    /\ render_queue # <<>>
    /\ render_queue' = Tail(render_queue)
    /\ threads' = [threads EXCEPT ![t] =
                      IF Head(render_queue) = "None" THEN NoThread
                      ELSE [@ EXCEPT !.pc = "w109"]]
    /\ UNCHANGED <<viewVars, surfaces, render_surface, slotVars, needs_update,
                   is_rendering, render_thread, loopVars, histVars, setVars>>

(* line 109: is_rendering = True *)
W109(t) ==
    /\ threads[t].pc = "w109"
    /\ is_rendering' = TRUE
    /\ threads' = [threads EXCEPT ![t].pc = "w110"]
    /\ UNCHANGED <<viewVars, surfaces, render_surface, slotVars, needs_update,
                   render_queue, render_thread, loopVars, histVars, setVars>>

(* line 110: the seven argument loads *)
W110Load(t) ==
    /\ threads[t].pc = "w110"
    /\ threads[t].args = <<>>
    /\ threads' = [threads EXCEPT ![t].args =
           <<xmin, xmax, ymin, ymax, RENDER_WIDTH, RENDER_HEIGHT, MAX_ITER>>]
    /\ UNCHANGED <<viewVars, surfaces, render_surface, slotVars, needs_update,
                   is_rendering, render_queue, render_thread, loopVars, histVars, setVars>>

(* line 110: the call and the store to next_mandelbrot_image *)
W110Store(t) ==
    /\ threads[t].pc = "w110"
    /\ threads[t].args # <<>>
    /\ next_mandelbrot_image' = <<mandelbrot_set(threads[t].args)>>
    /\ threads' = [threads EXCEPT ![t].pc = "w111", ![t].args = <<>>]
    /\ UNCHANGED <<viewVars, surfaces, render_surface, next_render_surface,
                   needs_update, is_rendering, render_queue, render_thread,
                   loopVars, histVars, setVars>>

(* line 111: the loads of RENDER_WIDTH and RENDER_HEIGHT *)
W111Load(t) ==
    /\ threads[t].pc = "w111"
    /\ threads[t].args = <<>>
    /\ threads' = [threads EXCEPT ![t].args = <<RENDER_WIDTH, RENDER_HEIGHT>>]
    /\ UNCHANGED <<viewVars, surfaces, render_surface, slotVars, needs_update,
                   is_rendering, render_queue, render_thread, loopVars, histVars, setVars>>

(* line 111: the new surface is stored to next_render_surface, still blank *)
W111Store(t) ==
    LET live == Refs(render_surface, 0, threads)
        id   == FreshId(live)
    IN  /\ threads[t].pc = "w111"
        /\ threads[t].args # <<>>
        /\ Settle([surfaces EXCEPT ![id] =
                       NewSurface(threads[t].args[1], threads[t].args[2])],
                  render_surface, id,
                  [threads EXCEPT ![t].pc = "w112", ![t].args = <<>>])
        /\ UNCHANGED <<viewVars, next_mandelbrot_image,
                       needs_update, is_rendering, render_queue, render_thread,
                       loopVars, histVars, setVars>>

(* line 112: the five argument loads of the draw_mandelbrot call *)
W112Load(t) ==
        /\ threads[t].pc = "w112"
        /\ Settle(surfaces, render_surface, next_render_surface,
                  [threads EXCEPT
                       ![t].pc = "draw",
                       ![t].surface = next_render_surface,
                       ![t].image = next_mandelbrot_image,
                       ![t].width = RENDER_WIDTH,
                       ![t].height = RENDER_HEIGHT,
                       ![t].max_iter = MAX_ITER])
        /\ UNCHANGED <<viewVars, next_mandelbrot_image, needs_update,
                       is_rendering, render_queue, render_thread, loopVars,
                       histVars, setVars>>


(***************************************************************************)
(* draw_mandelbrot (lines 71-79), called by line 112 with the loaded       *)
(* arguments.  mandelbrot_image[y, x] raises on None and on an index       *)
(* beyond the grid; surface.set_at raises on None and ignores a pixel      *)
(* beyond the surface.                                                     *)
(***************************************************************************)
(* the loop body runs at least once *)
DrawHasPixels(th) == th.width > 0 /\ th.height > 0

(* the first pixel raises: a None argument or an empty grid *)
DrawRaisesAtOnce(th) ==
    \/ th.image = <<>>
    \/ th.surface = 0
    \/ th.image[1].width = 0 \/ th.image[1].height = 0

(* a later pixel raises: the loop bounds exceed the grid *)
DrawRaisesLater(th) ==
    th.width > th.image[1].width \/ th.height > th.image[1].height

(* the surface was filled from a grid of its own size and iteration cap *)
DrawnWhole(th, sf) ==
    /\ sf.w = th.width /\ sf.h = th.height
    /\ th.image[1].width = th.width /\ th.image[1].height = th.height
    /\ th.image[1].max_iter = th.max_iter

(* the call of line 112 and the first pixel of the loop *)
DrawStart(t) ==
    LET th == threads[t]
    IN  /\ th.pc = "draw"
        /\ IF ~DrawHasPixels(th)
           THEN Settle(surfaces, render_surface, next_render_surface,
                       [threads EXCEPT ![t].pc = "w113"])
           ELSE IF DrawRaisesAtOnce(th)
           THEN Settle(surfaces, render_surface, next_render_surface,
                       [threads EXCEPT ![t] = NoThread])
           ELSE Settle([surfaces EXCEPT ![th.surface].state = "partial"],
                       render_surface, next_render_surface,
                       [threads EXCEPT ![t].pc = "drawing"])
        /\ UNCHANGED <<viewVars, next_mandelbrot_image, needs_update,
                       is_rendering, render_queue, render_thread, loopVars,
                       histVars, setVars>>

(* the rest of the loop, to its last pixel or to an IndexError *)
DrawFinish(t) ==
    LET th == threads[t]
    IN  /\ th.pc = "drawing"
        /\ IF DrawRaisesLater(th)
           THEN Settle(surfaces, render_surface, next_render_surface,
                       [threads EXCEPT ![t] = NoThread])
           ELSE Settle([surfaces EXCEPT
                           ![th.surface].state =
                               IF DrawnWhole(th, surfaces[th.surface])
                               THEN "complete" ELSE "torn",
                           ![th.surface].img = th.image],
                       render_surface, next_render_surface,
                       [threads EXCEPT ![t].pc = "w113"])
        /\ UNCHANGED <<viewVars, next_mandelbrot_image, needs_update,
                       is_rendering, render_queue, render_thread, loopVars,
                       histVars, setVars>>

(* lines 113-115: is_rendering = False, task_done, and back to the get *)
W113(t) ==
    /\ threads[t].pc = "w113"
    /\ is_rendering' = FALSE
    /\ Settle(surfaces, render_surface, next_render_surface,
              [threads EXCEPT ![t] = [NoThread EXCEPT !.pc = "get"]])
    /\ UNCHANGED <<viewVars, next_mandelbrot_image, needs_update, render_queue,
                   render_thread, loopVars, histVars, setVars>>

Worker(t) ==
    \/ WGet(t) \/ W109(t) \/ W110Load(t) \/ W110Store(t)
    \/ W111Load(t) \/ W111Store(t) \/ W112Load(t)
    \/ DrawStart(t) \/ DrawFinish(t) \/ W113(t)

Next == Display \/ \E t \in Threads : Worker(t)

Spec == Init /\ [][Next]_vars


(***************************************************************************)
(* The escape-time evaluators: mandelbrot of set.py (lines 17-23) and the  *)
(* OpenCL kernel of gpuset.py (lines 43-51).  A complex number is a pair   *)
(* <<re, im>>; the points evaluated have small integer parts, for which    *)
(* float and double arithmetic are exact.                                  *)
(***************************************************************************)
Coords == (0 - MaxCoord) .. MaxCoord
Points == Coords \X Coords

(* z * z + c *)
Step(z, c) == <<z[1] * z[1] - z[2] * z[2] + c[1], 2 * z[1] * z[2] + c[2]>>

(* abs(z) > 2 *)
Escaped(z) == z[1] * z[1] + z[2] * z[2] > 4

(* set.py lines 19-23: the loop from iteration n on *)
RECURSIVE Loop(_, _, _, _)
Loop(z, c, n, max_iter) ==
    IF n >= max_iter THEN max_iter
    ELSE IF Escaped(z) THEN n
    ELSE Loop(Step(z, c), c, n + 1, max_iter)

(* set.py lines 17-23: z starts at c *)
mandelbrotFromZero(c, max_iter) == Loop(<<0, 0>>, c, 0, max_iter)
mandelbrot(c, max_iter) == Loop(c, c, 0, max_iter)

(* gpuset.py lines 44-50: the for loop from iter on; imag is updated from   *)
(* the old real, real from the squares taken before                         *)
RECURSIVE KernelLoop(_, _, _, _, _, _)
KernelLoop(real, imag, c_real, c_imag, iter, max_iter) ==
    IF iter >= max_iter THEN iter
    ELSE LET real2 == real * real
             imag2 == imag * imag
         IN  IF real2 + imag2 > 4 THEN iter
             ELSE KernelLoop(real2 - imag2 + c_real, 2 * real * imag + c_imag,
                             c_real, c_imag, iter + 1, max_iter)

(* gpuset.py lines 40-51: output[gid] for the point c *)
kernel(c, max_iter) == KernelLoop(c[1], c[2], c[1], c[2], 0, max_iter)

(* one call of either evaluator, on any point and any cap *)
EscapeInit ==
    /\ Globals
    /\ futures = <<>> /\ rows = <<>> /\ mandelbrot_image = <<>>
    /\ call \in [fn : {"mandelbrot", "kernel"}, c : Points, max_iter : 0 .. MaxIter,
                 done : {FALSE}, result : {0}]

CallMandelbrot ==
    /\ call.fn = "mandelbrot" /\ ~call.done
    /\ call' = [call EXCEPT !.done = TRUE,
                            !.result = mandelbrot(call.c, call.max_iter)]
    /\ UNCHANGED <<gpuVars, futures, rows, mandelbrot_image>>

CallKernel ==
    /\ call.fn = "kernel" /\ ~call.done
    /\ call' = [call EXCEPT !.done = TRUE,
                            !.result = kernel(call.c, call.max_iter)]
    /\ UNCHANGED <<gpuVars, futures, rows, mandelbrot_image>>

SpecEscape == EscapeInit /\ [][CallMandelbrot \/ CallKernel]_vars


(***************************************************************************)
(* mandelbrot_row and mandelbrot_set of set.py (lines 25-36).  A number    *)
(* that need not be an integer is a fraction <<numerator, denominator>>.   *)
(***************************************************************************)
(* np.linspace(lo, hi, num)[i]: num points with both ends included *)
linspace(lo, hi, num, i) ==
    IF num = 1 THEN <<lo, 1>> ELSE <<lo * (num - 1) + i * (hi - lo), num - 1>>

(* the value of a fraction that is an integer *)
Whole(fr) == fr[1] \div fr[2]

(* the viewports and sizes given to set.py's mandelbrot_set: the points of *)
(* their grids have integer parts                                          *)
PoolViews ==
    {[xmin |-> -2, xmax |-> 1, ymin |-> -1, ymax |-> 1, width |-> 4, height |-> 3],
     [xmin |-> -2, xmax |-> 2, ymin |-> -2, ymax |-> 2, width |-> 3, height |-> 3],
     [xmin |-> -1, xmax |-> 1, ymin |-> 0, ymax |-> 1, width |-> 3, height |-> 2]}

(* lines 26-31: row y of the grid, a sequence of a.width results *)
mandelbrot_row(a, max_iter, y) ==
    [i \in 1 .. a.width |->
        mandelbrot(<<Whole(linspace(a.xmin, a.xmax, a.width, i - 1)),
                     Whole(linspace(a.ymin, a.ymax, a.height, y))>>, max_iter)]

(* rows 0 .. height-1 evaluated one after the other *)
SequentialGrid(a, max_iter) ==
    [k \in 1 .. a.height |-> mandelbrot_row(a, max_iter, k - 1)]

PoolInit ==
    /\ Globals
    /\ call \in [fn : {"mandelbrot_set"}, a : PoolViews, max_iter : 1 .. MaxIter,
                 finished : {<<>>}, done : {FALSE}]
    /\ futures = <<>> /\ rows = <<>> /\ mandelbrot_image = <<>>

(* line 35, executor.map: one task per y of range(height), all submitted *)
MapSubmit ==
    /\ futures = <<>> /\ ~call.done
    /\ futures' = [k \in 1 .. call.a.height |-> [state |-> "pending", row |-> <<>>]]
    /\ UNCHANGED <<gpuVars, call, rows, mandelbrot_image>>

Running(fs) == {k \in DOMAIN fs : fs[k].state = "running"}

(* a free worker thread takes the oldest task of the pool's work queue *)
TaskStart(k) ==
    /\ k \in DOMAIN futures
    /\ futures[k].state = "pending"
    /\ \A j \in 1 .. (k - 1) : futures[j].state # "pending"
    /\ Cardinality(Running(futures)) < MaxWorkers
    /\ futures' = [futures EXCEPT ![k].state = "running"]
    /\ UNCHANGED <<gpuVars, call, rows, mandelbrot_image>>

(* the task returns its row, which becomes the result of its future; the    *)
(* call record keeps the order in which the tasks finished                  *)
TaskFinish(k) ==
    /\ k \in DOMAIN futures
    /\ futures[k].state = "running"
    /\ futures' = [futures EXCEPT ![k] =
                      [state |-> "done",
                       row |-> mandelbrot_row(call.a, call.max_iter, k - 1)]]
    /\ call' = [call EXCEPT !.finished = Append(@, k)]
    /\ UNCHANGED <<gpuVars, rows, mandelbrot_image>>

(* the future whose result list() takes next: map yields the results in    *)
(* the order of the submissions                                            *)
NextResultAsCompleted(fs, rs) ==
    IF \E k \in DOMAIN fs : fs[k].state = "done"
    THEN CHOOSE k \in DOMAIN fs :
             fs[k].state = "done" /\ \A j \in DOMAIN fs : fs[j].state = "done" => j <= k
    ELSE 0
NextResult(fs, rs) == IF Len(rs) < Len(fs) THEN Len(rs) + 1 ELSE 0

(* line 35, list(...): waits for the next result and appends it *)
Collect ==
    LET k == NextResult(futures, rows)
    IN  /\ futures # <<>> /\ ~call.done
        /\ k # 0
        /\ futures[k].state = "done"
        /\ rows' = Append(rows, futures[k].row)
        /\ futures' = [futures EXCEPT ![k].state = "taken"]
        /\ UNCHANGED <<gpuVars, call, mandelbrot_image>>

(* line 36 and line 106: every result has been taken; np.array(rows) *)
PoolReturn ==
    /\ futures # <<>> /\ ~call.done
    /\ \A k \in DOMAIN futures : futures[k].state = "taken"
    /\ mandelbrot_image' = rows
    /\ call' = [call EXCEPT !.done = TRUE]
    /\ UNCHANGED <<gpuVars, futures, rows>>

PoolNext ==
    \/ MapSubmit \/ Collect \/ PoolReturn
    \/ \E k \in DOMAIN futures : TaskStart(k)
    \/ \E k \in DOMAIN futures : TaskFinish(k)

SpecPool == PoolInit /\ [][PoolNext]_vars


(***************************************************************************)
(* Properties of the render scheduler (specification Spec).                *)
(***************************************************************************)
PendingRequests == {i \in DOMAIN render_queue : render_queue[i] = "task"}
AliveThreads == {t \in Threads : IsAlive(threads, t)}
Computing(t) == threads[t].pc \in {"w110", "w111", "w112", "draw", "drawing"}

(* C1: the request queue is a single slot: at most one render request is   *)
(* queued and not yet started, so of two requests submitted before the     *)
(* worker dequeues the first only one is ever computed.                    *)
C1_SingleSlotHandoff == Cardinality(PendingRequests) <= 1

(* C2: once an image has been consumed, the surface every later frame tick *)
(* presents is completely rendered and is the image consumed last, also    *)
(* on the ticks right after a zoom.                                        *)
C2_LastImageRetained ==
    (pc = "present" /\ consumed) =>
        /\ surfaces[render_surface].state = "complete"
        /\ surfaces[render_surface].taken >= 1

(* C3: a surface is visible in the completed slot only once it has been    *)
(* fully colorized from a fully computed grid, so the display loop never   *)
(* takes a blank or half-drawn one.                                        *)
C3_AtomicPublication ==
    next_render_surface # 0 => surfaces[next_render_surface].state = "complete"

(* C4: the display loop never waits on the computation: before the         *)
(* shutdown join its next step is enabled in every reachable state,        *)
(* whatever the worker is doing, so an iteration completes by display      *)
(* steps alone.  The display thread is either at one of the assignments    *)
(* of lines 132-136, which wait for nothing, or at a step that is enabled. *)
AtAssignment == pc \in {AzStage[i] : i \in 1 .. 5}
C4_DisplayNeverWaits ==
    pc \notin {"join", "done"} => (AtAssignment \/ ENABLED CallStep)

(* the display loop has consumed an image, and puts the request of a zoom  *)
(* while the worker is in the middle of colorizing                         *)
C4_Witness ==
    /\ pc = "snr122" /\ ret = "events"
    /\ consumed
    /\ \E t \in Threads : threads[t].pc = "drawing"

(* C5: at most one render_worker thread is alive at any time, so two       *)
(* computations never overlap.                                             *)
C5_OneWorker == Cardinality(AliveThreads) <= 1

(* start_new_render was called again and passed line 119 while the worker  *)
(* was computing                                                            *)
C5_Witness ==
    /\ pc = "snr122" /\ ret # "loop"
    /\ \E t \in Threads : Computing(t)
    /\ Cardinality(AliveThreads) = 1

(* C6: the poll consumes each published image at most once and clears only *)
(* the image it has just taken.                                            *)
C6_ConsumeOnce ==
    /\ \A i \in SurfIds : surfaces[i].taken <= 1
    /\ pc = "p184" => next_render_surface = render_surface

(***************************************************************************)
(* Properties of auto_zoom (specifications SpecDeep and SpecZoom).         *)
(***************************************************************************)
LastCall == zlog[Len(zlog)]

(* C7: the render resolution stays within [100, 800] x [75, 600] after any *)
(* sequence of zoom-ins and zoom-outs.                                     *)
C7_ResolutionBounds ==
    /\ MIN_RENDER_WIDTH <= RENDER_WIDTH /\ RENDER_WIDTH <= MAX_RENDER_WIDTH
    /\ MIN_RENDER_HEIGHT <= RENDER_HEIGHT /\ RENDER_HEIGHT <= MAX_RENDER_HEIGHT

(* C8: the iteration cap stays within [256, 2048] after any sequence of    *)
(* zoom-ins and zoom-outs.                                                 *)
C8_IterationBounds ==
    INITIAL_MAX_ITER <= MAX_ITER /\ MAX_ITER <= MAX_ITER_CEILING

(* a zoom-in at p followed by a zoom-out at the same p *)
RoundTripDone ==
    /\ Len(zlog) = 2
    /\ zlog[1].f = ZOOM_FACTOR /\ zlog[2].f = Reciprocal(ZOOM_FACTOR)
    /\ zlog[1].p = zlog[2].p

(* C9 as stated: zooming in and then out by the reciprocal factor at the    *)
(* same focal point restores the plane bounds exactly, for every focal      *)
(* point.                                                                   *)
C9_RoundTripAnyFocus ==
    RoundTripDone =>
        /\ xmin = zlog[1].before.xmin /\ xmax = zlog[1].before.xmax
        /\ ymin = zlog[1].before.ymin /\ ymax = zlog[1].before.ymax

(* C9 as amended: the round trip restores the extents for every focal       *)
(* point, the x bounds exactly when the focal x is the screen centre 400,   *)
(* and the y bounds exactly when the focal y is the screen centre 300.      *)
C9_RoundTripAtCentre ==
    RoundTripDone =>
        /\ RSub(xmax, xmin) = RSub(zlog[1].before.xmax, zlog[1].before.xmin)
        /\ RSub(ymax, ymin) = RSub(zlog[1].before.ymax, zlog[1].before.ymin)
        /\ (xmin = zlog[1].before.xmin /\ xmax = zlog[1].before.xmax)
               <=> zlog[1].p[1] = WIDTH \div 2
        /\ (ymin = zlog[1].before.ymin /\ ymax = zlog[1].before.ymax)
               <=> zlog[1].p[2] = HEIGHT \div 2

(* a round trip at the centre after an earlier off-centre zoom *)
C9_Witness ==
    /\ RoundTripDone
    /\ zlog[1].p = ScreenCentre
    /\ zooms = 3
    /\ zlog[1].before.xmin # RInt(-2)
    /\ xmin = zlog[1].before.xmin

(* C10: a zoom-in never lowers the resolution or the iteration cap, and     *)
(* each of them is at its ceiling once the scaled value would exceed it.    *)
C10_ZoomInMonotone ==
    (zlog # <<>> /\ LastCall.f = ZOOM_FACTOR) =>
        LET b == LastCall.before
        IN  /\ RENDER_WIDTH >= b.RENDER_WIDTH
            /\ RENDER_HEIGHT >= b.RENDER_HEIGHT
            /\ MAX_ITER >= b.MAX_ITER
            /\ b.RENDER_WIDTH * 6 > MAX_RENDER_WIDTH * 5
                   => RENDER_WIDTH = MAX_RENDER_WIDTH
            /\ b.RENDER_HEIGHT * 6 > MAX_RENDER_HEIGHT * 5
                   => RENDER_HEIGHT = MAX_RENDER_HEIGHT
            /\ b.MAX_ITER * 6 > MAX_ITER_CEILING * 5
                   => MAX_ITER = MAX_ITER_CEILING

(* a zoom-in that clamps the iteration cap, and one after zoom-outs that    *)
(* raises a resolution below the ceiling                                    *)
C10_Witness ==
    /\ zlog # <<>> /\ LastCall.f = ZOOM_FACTOR
    /\ LastCall.before.MAX_ITER < MAX_ITER_CEILING
    /\ LastCall.before.MAX_ITER * 6 > MAX_ITER_CEILING * 5
    /\ MAX_ITER = MAX_ITER_CEILING
    /\ RENDER_WIDTH = MAX_RENDER_WIDTH

(* the first call is a zoom-in at the screen centre *)
CentreZoomInDone ==
    /\ zooms = 1
    /\ zlog[1].f = ZOOM_FACTOR /\ zlog[1].p = ScreenCentre

(* C11 as stated: from the initial viewport one zoom-in at the screen       *)
(* centre gives xmin = -2/1.2, xmax = 1/1.2, ymin = -1.25, ymax = 1.25,     *)
(* resolution 800x600 and iteration cap 307.                                *)
C11_ScenarioAsStated ==
    CentreZoomInDone =>
        /\ xmin = Ratio(-5, 3) /\ xmax = Ratio(5, 6)
        /\ ymin = Ratio(-5, 4) /\ ymax = Ratio(5, 4)
        /\ RENDER_WIDTH = 800 /\ RENDER_HEIGHT = 600
        /\ MAX_ITER = 307

(* C11 as amended: the x bounds are xmin = -1.75 and xmax = 0.75, the view  *)
(* of extent 3/1.2 = 2.5 about the plane point -0.5 under the screen        *)
(* centre; the other values are as stated.                                  *)
C11_ZoomScenario ==
    CentreZoomInDone =>
        /\ xmin = Ratio(-7, 4) /\ xmax = Ratio(3, 4)
        /\ ymin = Ratio(-5, 4) /\ ymax = Ratio(5, 4)
        /\ RENDER_WIDTH = 800 /\ RENDER_HEIGHT = 600
        /\ MAX_ITER = 307

(* the scenario has run: the clamped resolution and the new cap *)
C11_Witness ==
    /\ CentreZoomInDone
    /\ zlog[1].before.MAX_ITER = INITIAL_MAX_ITER
    /\ RENDER_WIDTH = MAX_RENDER_WIDTH /\ MAX_ITER = 307

(***************************************************************************)
(* Properties of the escape-time evaluators (specification SpecEscape).    *)
(***************************************************************************)
(* C12: both evaluators check for escape before they update: a point with  *)
(* real^2 + imag^2 > 4 gives 0, the origin gives the cap, and every result *)
(* lies between 0 and the cap.                                             *)
C12_EscapeTime ==
    call.done =>
        /\ call.c[1] * call.c[1] + call.c[2] * call.c[2] > 4 => call.result = 0
        /\ call.c = <<0, 0>> => call.result = call.max_iter
        /\ 0 <= call.result /\ call.result <= call.max_iter

(* the kernel has returned 0 for the point 3 under a positive cap *)
C12_Witness ==
    /\ call.done /\ call.fn = "kernel"
    /\ call.c = <<3, 0>> /\ call.max_iter = MaxIter
    /\ call.result = 0

(***************************************************************************)
(* Properties of set.py's mandelbrot_set (specification SpecPool).         *)
(***************************************************************************)
(* C13: whatever the order in which the row tasks start and finish, every  *)
(* finished task holds its own row, and the grid returned has height rows  *)
(* of width columns and equals the rows evaluated one after the other.     *)
C13_ParallelEqualsSequential ==
    /\ \A k \in DOMAIN futures :
           futures[k].state \in {"done", "taken"} =>
               futures[k].row = mandelbrot_row(call.a, call.max_iter, k - 1)
    /\ call.done =>
           /\ mandelbrot_image = SequentialGrid(call.a, call.max_iter)
           /\ Len(mandelbrot_image) = call.a.height
           /\ \A k \in DOMAIN mandelbrot_image :
                  Len(mandelbrot_image[k]) = call.a.width

(* the grid was returned after the second row finished before the first,   *)
(* and its first two rows differ                                            *)
C13_Witness ==
    /\ call.done
    /\ call.finished[1] = 2
    /\ Len(mandelbrot_image) = 3
    /\ mandelbrot_image[1] # mandelbrot_image[2]

(***************************************************************************)
(* Further properties of the render scheduler (specification Spec).        *)
(***************************************************************************)
(* a computation is in flight: the worker has dequeued a task and has not   *)
(* yet reset is_rendering                                                   *)
InFlight(t) == threads[t].pc \notin {"free", "get"}

(* C14: while a computation is in flight no step changes the viewport:      *)
(* xmin, xmax, ymin, ymax, RENDER_WIDTH, RENDER_HEIGHT and MAX_ITER keep    *)
(* the values they had when it started.                                     *)
C14_BusyGating ==
    [][(\E t \in Threads : InFlight(t)) => viewVars' = viewVars]_vars

(* the viewport of lines 82-87 and those that whole auto_zoom calls make    *)
(* of it                                                                    *)
InitialViewport ==
    [xmin |-> RInt(-2), xmax |-> RInt(1), ymin |-> Ratio(-3, 2),
     ymax |-> Ratio(3, 2), RENDER_WIDTH |-> 800, RENDER_HEIGHT |-> 600,
     MAX_ITER |-> INITIAL_MAX_ITER]

RECURSIVE ZoomedViewports(_)
ZoomedViewports(n) ==
    IF n = 0 THEN {InitialViewport}
    ELSE LET prev == ZoomedViewports(n - 1)
         IN  prev \cup {auto_zoom(v, f, p[1], p[2]) :
                           v \in prev, f \in ZoomFactors, p \in Positions}

WholeViewports == ZoomedViewports(MaxZooms)

(* the arguments line 110 passes to mandelbrot_set *)
AsArgs(v) ==
    <<v.xmin, v.xmax, v.ymin, v.ymax, v.RENDER_WIDTH, v.RENDER_HEIGHT, v.MAX_ITER>>

(* C15: every computation uses one whole viewport: the seven arguments of   *)
(* mandelbrot_set are the values of one auto_zoom call (or the initial      *)
(* ones), and the grid and the surface that draw_mandelbrot is given have   *)
(* the dimensions and the iteration cap it is given.                        *)
C15_ConsistentSnapshot ==
    \A t \in Threads :
        LET th == threads[t]
        IN  /\ (th.pc = "w110" /\ th.args # <<>>) =>
                   \E v \in WholeViewports : th.args = AsArgs(v)
            /\ (th.pc \in {"draw", "drawing"} /\ th.image # <<>> /\ th.surface # 0) =>
                   /\ th.image[1].width = th.width
                   /\ th.image[1].height = th.height
                   /\ th.image[1].max_iter = th.max_iter
                   /\ surfaces[th.surface].w = th.width
                   /\ surfaces[th.surface].h = th.height

(* C16: a stale image never becomes the displayed surface: the drawn        *)
(* surface that line 183 has just made render_surface holds the grid of     *)
(* the viewport that is current at that poll.                               *)
C16_StaleDropped ==
    (pc = "p184" /\ surfaces[render_surface].img # <<>>) =>
        surfaces[render_surface].img[1] = mandelbrot_set(AsArgs(Viewport))

(* C17: when the display loop has consumed an image while auto-zoom is      *)
(* active and no request is queued or in flight, the step that ends the     *)
(* consumption (lines 186-188) calls start_new_render.                      *)
C17_FollowUpWhenAutoZoom ==
    [][(/\ pc = "p186" /\ pc' # "p186"
        /\ auto_zooming
        /\ render_queue = <<>> /\ ~is_rendering
        /\ \A t \in Threads : ~InFlight(t))
           => pc' = "snr119"]_vars

(***************************************************************************)
(* The pixel-to-plane mappings of the two programs (specification          *)
(* SpecSample): mandelbrot_row of set.py (lines 26-30) and the kernel of   *)
(* gpuset.py (lines 38-39), in exact arithmetic.  A plane coordinate is a  *)
(* fraction <<numerator, denominator>>.                                    *)
(***************************************************************************)
(* the widest grid sampled *)
MaxWidth == 3

(* gpuset.py lines 38-39: lo + (hi - lo) * i / (float) n *)
kernel_point(lo, hi, n, i) == <<lo * n + (hi - lo) * i, n>>

(* two fractions of positive denominators are the same number *)
SameNumber(a, b) == a[1] * b[2] = b[1] * a[2]

(* the bounds of an axis of the sampled viewports *)
SampleBounds == {<<-2, 1>>, <<-1, 1>>}

SampleInit ==
    /\ Globals
    /\ call \in {c \in [fn : {"sample"}, xs : SampleBounds, ys : SampleBounds,
                        width : 2 .. MaxWidth, height : 2 .. MaxWidth,
                        x : 0 .. (MaxWidth - 1), y : 0 .. (MaxWidth - 1),
                        row : {<<>>}, gpu : {<<>>}] :
                    c.x < c.width /\ c.y < c.height}
    /\ futures = <<>> /\ rows = <<>> /\ mandelbrot_image = <<>>

(* set.py lines 26-30: the point r1[x] + 1j * r2[y] of pixel (x, y) *)
RowPoint ==
    /\ call.row = <<>>
    /\ call' = [call EXCEPT !.row =
                   <<linspace(call.xs[1], call.xs[2], call.width, call.x),
                     linspace(call.ys[1], call.ys[2], call.height, call.y)>>]
    /\ UNCHANGED <<gpuVars, futures, rows, mandelbrot_image>>

(* gpuset.py lines 34-39: the point (real, imag) of work item (x, y) *)
KernelPoint ==
    /\ call.gpu = <<>>
    /\ call' = [call EXCEPT !.gpu =
                   <<kernel_point(call.xs[1], call.xs[2], call.width, call.x),
                     kernel_point(call.ys[1], call.ys[2], call.height, call.y)>>]
    /\ UNCHANGED <<gpuVars, futures, rows, mandelbrot_image>>

SampleNext == RowPoint \/ KernelPoint

SpecSample == SampleInit /\ [][SampleNext]_vars

(* C18: for every width >= 2 and every pixel (x, y), mandelbrot_row and the *)
(* kernel both evaluate at real = xmin + (xmax - xmin) * x / width and      *)
(* imag = ymin + (ymax - ymin) * y / height, so they sample the same point. *)
C18_SameMapping ==
    LET real == <<call.xs[1] * call.width + (call.xs[2] - call.xs[1]) * call.x,
                  call.width>>
        imag == <<call.ys[1] * call.height + (call.ys[2] - call.ys[1]) * call.y,
                  call.height>>
    IN  /\ call.gpu # <<>> =>
               SameNumber(call.gpu[1], real) /\ SameNumber(call.gpu[2], imag)
        /\ call.row # <<>> =>
               SameNumber(call.row[1], real) /\ SameNumber(call.row[2], imag)
        /\ (call.row # <<>> /\ call.gpu # <<>>) =>
               /\ SameNumber(call.row[1], call.gpu[1])
               /\ SameNumber(call.row[2], call.gpu[2])

(***************************************************************************)
(* Progress (specification SpecQuiet): the program left alone, so that     *)
(* pygame.event.get() returns an empty list in every pass of the loop, and *)
(* the interpreter keeps scheduling every thread that can run.             *)
(***************************************************************************)
QuietLoop ==
    \/ Snr119 \/ Snr122 \/ LoopHead \/ EvEnd \/ AutoZoomTick
    \/ Poll181 \/ Poll183 \/ Poll184 \/ Poll185 \/ Poll186 \/ Present

QuietNext == QuietLoop \/ \E t \in Threads : Worker(t)

SpecQuiet ==
    /\ Init /\ [][QuietNext]_vars
    /\ WF_vars(QuietLoop)
    /\ \A t \in Threads : WF_vars(Worker(t))

(* C19: whenever is_rendering is true, the worker eventually sets it back   *)
(* to false.                                                                *)
C19_BusyFlagClears == is_rendering ~> ~is_rendering

(* the queue is empty, no computation is in flight and start_new_render is  *)
(* not being called                                                         *)
Quiescent ==
    /\ render_queue = <<>>
    /\ \A t \in Threads : ~InFlight(t)
    /\ pc \notin {"snr119", "snr122"}

(* C20: with auto-zoom off and no input events, the program eventually      *)
(* reaches and stays in a state where the request queue is empty, no        *)
(* computation is in flight and no new render request is issued.            *)
C20_Quiescence == <>[]Quiescent

====
